---- MODULE Spec2Model ----
(***************************************************************************)
(* alice store API (include/alice/store_api.hpp).                          *)
(*                                                                         *)
(* The header declares the customization points of a store type: the       *)
(* descriptor store_info<T>, four presentation hooks, and three pairs of a *)
(* capability query and a gated action.  Every customization point is a    *)
(* function template whose primary definition is the default; an extension *)
(* author overrides it for one exact key by an explicit specialization.    *)
(* Which specializations exist is fixed when the shell is built, so it is  *)
(* chosen in Init and never changes.  The shell then calls the hooks, one  *)
(* call per step, inside command invocations.                              *)
(***************************************************************************)
EXTENDS Naturals, Sequences, FiniteSets

\* ------------------------------------------------------------------ bounds

\* How many explicit specializations the extension author has written.
MaxSpecializations == 2

\* How many entries the output sink holds before the shell stops printing.
MaxOut == 2

\* How many specializations a build has when one query key is probed.
MaxProbedSpecializations == 1

\* ---------------------------------------------------------------- universe

StoreTypes == {"T1", "graph"}

Tags == {"DotTag", "OtherTag"}

\* Values of the element's count field.
Elements == {3, 5}

NoArg == "-"

PresentationHooks == {"to_string", "print", "print_statistics", "log_statistics"}

FormatQueries == {"can_read", "can_write"}

FormatActions == {"read", "write"}

Queries == FormatQueries \cup {"can_convert"}

Actions == FormatActions \cup {"convert"}

\* A customization point instantiated for one exact key: <<hook, a, b>>.
\* Presentation hooks are keyed by the store type alone, format hooks by
\* (store type, tag), conversion hooks by (source type, destination type).
Items ==
  (PresentationHooks \X StoreTypes \X {NoArg})
    \cup ((FormatQueries \cup FormatActions) \X StoreTypes \X Tags)
    \cup ({"can_convert", "convert"} \X StoreTypes \X StoreTypes)

NoItem == <<"none", NoArg, NoArg>>

\* The query that gates an action, and the action a query gates.
\* The shell commands that reach the hooks: `store` shows to_string, `print`
\* calls print, `ps` calls print_statistics and log_statistics, and the
\* read, write and convert commands ask a query and then call its action.
Commands == {"store", "print", "ps", "read", "write", "convert"}

QueryItems ==
  (FormatQueries \X StoreTypes \X Tags) \cup ({"can_convert"} \X StoreTypes \X StoreTypes)

QueryOf(hook) ==
  CASE hook = "read" -> "can_read"
    [] hook = "write" -> "can_write"
    [] hook = "convert" -> "can_convert"

ActionOf(hook) ==
  CASE hook = "can_read" -> "read"
    [] hook = "can_write" -> "write"
    [] hook = "can_convert" -> "convert"

VARIABLES
  specializations,  \* the explicit specializations compiled into the shell
  command,          \* the shell command being executed
  cmd,              \* the command context (options) of that command
  granted,          \* actions whose query returned true in this command
  out,              \* what this command has written to the output sink
  ret,              \* what the last hook call was and how it ended
  probe,            \* the query key whose answers are being collected
  probed            \* the first and the latest answer of the probe key

vars == <<specializations, command, cmd, granted, out, ret, probe, probed>>

\* ------------------------------------------------------------- descriptors

\* The descriptor the header documents for a store type `graph`.  The
\* example declares `name` twice; the second declaration, "graphs", is the
\* plural name the text above it asks for.
\* Variant: the example descriptor with its singular name left empty.
store_info_graph_unnamed ==
  [key |-> "graph", option |-> "graph", mnemonic |-> "g",
   name |-> "", name_plural |-> "graphs"]

store_info_graph ==
  [key |-> "graph", option |-> "graph", mnemonic |-> "g",
   name |-> "graph", name_plural |-> "graphs"]

\* The descriptor of the store type T1.
store_info_T1 ==
  [key |-> "t1", option |-> "t1", mnemonic |-> "t",
   name |-> "thing", name_plural |-> "things"]

store_info(T) ==
  CASE T = "graph" -> store_info_graph
    [] T = "T1" -> store_info_T1

DescriptorFields == {"key", "option", "mnemonic", "name", "name_plural"}

\* The mnemonics that are taken: -n and -v belong to the shell's own options.
ReservedMnemonics == {"n", "v"}

\* The one-character strings.
Characters ==
  {"a", "b", "c", "d", "e", "f", "g", "h", "i", "j", "k", "l", "m",
   "n", "o", "p", "q", "r", "s", "t", "u", "v", "w", "x", "y", "z"}

\* ------------------------------------------------------------------ values

\* A value a hook returns, tagged with its C++ type.
Bool(b) == <<"bool", b>>

Str(s) == <<"std::string", s>>

Void == <<"void", NoArg>>

\* nlohmann::json holding an object: its set of <<key, value>> members.
JsonObject(members) == <<"json", "object", members>>

\* A value of a store type: the type and its count field.
Element(T, count) == <<"element", T, count>>

NoValue == <<"none", NoArg>>

NoError == [kind |-> NoArg, what |-> NoArg]

runtime_error(what) == [kind |-> "std::runtime_error", what |-> what]

\* How a call ends: it returns a value, or it unwinds with an exception.
Returned(v) == [outcome |-> "returned", value |-> v, error |-> NoError]

Thrown(e) == [outcome |-> "thrown", value |-> NoValue, error |-> e]

\* The line terminator std::endl inserts.
Endl == "\n"

\* Decimal rendering of a count (std::to_string).
DecimalString(n) ==
  CASE n = 3 -> "3"
    [] n = 5 -> "5"

\* ---------------------------------------------- variants of the defaults

\* Each variant is a default changed the way a slip in the header would
\* change it.

\* print that forgets the line terminator.
print_silent(o, element) == [out |-> o, result |-> Returned(Void)]

\* read that opens the file instead of failing.
read_lenient(filename, c) ==
  IF filename = ""
    THEN Thrown(runtime_error("[e] unimplemented function"))
    ELSE Returned(Element("T1", 3))

\* can_read that answers from the options already registered.
can_read_by_options(c) == [cmd |-> c, result |-> Returned(Bool(c # {}))]

\* can_write that answers true by default.
can_write_permissive(c) == [cmd |-> c, result |-> Returned(Bool(TRUE))]

\* write that fails with a message of its own.
write_own_message(element, filename, c) ==
  Thrown(runtime_error("[e] unimplemented write"))

\* can_convert that answers true by default.
can_convert_permissive == Returned(Bool(TRUE))

\* ------------------------------------------- primary templates (defaults)

\* std::string to_string( const StoreType& element )
to_string(element) == Returned(Str(""))

\* void print( std::ostream& out, const StoreType& element )
print(o, element) == [out |-> Append(o, Endl), result |-> Returned(Void)]

\* void print_statistics( std::ostream& out, const StoreType& element )
print_statistics(o, element) == [out |-> Append(o, Endl), result |-> Returned(Void)]

\* nlohmann::json log_statistics( const StoreType& element ): json({}) is
\* built from an empty initializer list, which is the empty object.
log_statistics(element) == Returned(JsonObject({}))

\* bool can_read( command& cmd )
can_read(c) == [cmd |-> c, result |-> Returned(Bool(FALSE))]

\* StoreType read( const std::string& filename, const command& cmd )
read(filename, c) == Thrown(runtime_error("[e] unimplemented function"))

\* bool can_write( command& cmd )
can_write(c) == [cmd |-> c, result |-> Returned(Bool(FALSE))]

\* void write( const StoreType& element, const std::string& filename, const command& cmd )
write(element, filename, c) == Thrown(runtime_error("[e] unimplemented function"))

\* bool can_convert()
can_convert == Returned(Bool(FALSE))

\* DestStoreType convert( const SourceStoreType& element )
convert(element) == Thrown(runtime_error("[e] unimplemented function"))

\* -------------------------------------- explicit specializations (overrides)

\* What an extension author's specialization does, after the scenarios of
\* the store API: a store type with a count field, rendered in decimal.

Filenames == {"a.dot", ""}

\* The file that can be opened; the empty filename cannot.
Readable(filename) == filename = "a.dot"

to_string_specialized(element) == Returned(Str(DecimalString(element)))

print_specialized(o, element) ==
  [out |-> Append(Append(o, DecimalString(element)), Endl), result |-> Returned(Void)]

log_statistics_specialized(element) ==
  Returned(JsonObject({<<"count", element>>}))

\* A query overridden to true may register an option of its own.
can_specialized(c) == [cmd |-> c \cup {"strict"}, result |-> Returned(Bool(TRUE))]

read_specialized(T, filename, c) ==
  IF Readable(filename)
    THEN Returned(Element(T, IF "strict" \in c THEN 5 ELSE 3))
    ELSE Thrown(runtime_error("[e] cannot open file"))

write_specialized(element, filename, c) ==
  IF Readable(filename)
    THEN Returned(Void)
    ELSE Thrown(runtime_error("[e] cannot open file"))

can_convert_specialized == Returned(Bool(TRUE))

convert_specialized(D, element) == Returned(Element(D, element))

\* ---------------------------------------------------------------- dispatch

\* Variant: the specialization is looked up by the store type alone.
Specialized_by_type(hook, a, b) ==
  \E other \in Tags \cup StoreTypes \cup {NoArg} : <<hook, a, other>> \in specializations

\* Variant: the specialization is looked up with the two key parts swapped.
Specialized_swapped(hook, a, b) ==
  IF b = NoArg
    THEN <<hook, a, b>> \in specializations
    ELSE <<hook, b, a>> \in specializations

\* A call of hook<a, b> runs the explicit specialization for exactly that
\* key when one was written, and the primary template otherwise.
Specialized(hook, a, b) == <<hook, a, b>> \in specializations

\* The record of one hook call.
Call(hook, a, b, arg, gated, result) ==
  [hook |-> hook, a |-> a, b |-> b, arg |-> arg, gated |-> gated,
   cmd0 |-> cmd, out0 |-> out, result |-> result]

NoCall ==
  [hook |-> "none", a |-> NoArg, b |-> NoArg, arg |-> NoArg, gated |-> FALSE,
   cmd0 |-> {}, out0 |-> <<>>, result |-> Returned(Void)]

\* Whether the shell has asked the paired query in this command invocation
\* and got true.
Granted(hook, a, b) == <<hook, a, b>> \in granted

\* The builds with at most n explicit specializations.
Builds(n) ==
  {{slot[i] : i \in 1..n} \ {NoItem} : slot \in [1..n -> Items \cup {NoItem}]}

Idle ==
  /\ command = "none"
  /\ cmd = {}
  /\ granted = {}
  /\ out = <<>>
  /\ ret = NoCall
  /\ probed = <<>>

Init ==
  /\ specializations \in Builds(MaxSpecializations)
  /\ probe = NoItem
  /\ Idle

\* The same shell with the answers of one query key collected.
InitProbed ==
  /\ specializations \in Builds(MaxProbedSpecializations)
  /\ probe \in QueryItems
  /\ Idle

\* ----------------------------------------------------------------- actions

\* The shell starts the next command with a fresh command context.
NewCommand ==
  \E name \in Commands :
    /\ command' = name
    /\ cmd' = {}
    /\ granted' = {}
    /\ out' = <<>>
    /\ ret' = NoCall
    /\ UNCHANGED <<specializations, probe, probed>>

CallToString ==
  \E T \in StoreTypes, e \in Elements :
    /\ command = "store"
    /\ ret' = Call("to_string", T, NoArg, e, FALSE,
                   IF Specialized("to_string", T, NoArg)
                     THEN to_string_specialized(e)
                     ELSE to_string(e))
    /\ UNCHANGED <<specializations, command, cmd, granted, out, probe, probed>>

CallPrint ==
  \E T \in StoreTypes, e \in Elements :
    LET eff == IF Specialized("print", T, NoArg)
                 THEN print_specialized(out, e)
                 ELSE print(out, e)
    IN /\ command = "print"
       /\ Len(eff.out) <= MaxOut
       /\ out' = eff.out
       /\ ret' = Call("print", T, NoArg, e, FALSE, eff.result)
       /\ UNCHANGED <<specializations, command, cmd, granted, probe, probed>>

CallPrintStatistics ==
  \E T \in StoreTypes, e \in Elements :
    LET eff == IF Specialized("print_statistics", T, NoArg)
                 THEN print_specialized(out, e)
                 ELSE print_statistics(out, e)
    IN /\ command = "ps"
       /\ Len(eff.out) <= MaxOut
       /\ out' = eff.out
       /\ ret' = Call("print_statistics", T, NoArg, e, FALSE, eff.result)
       /\ UNCHANGED <<specializations, command, cmd, granted, probe, probed>>

CallLogStatistics ==
  \E T \in StoreTypes, e \in Elements :
    /\ command = "ps"
    /\ ret' = Call("log_statistics", T, NoArg, e, FALSE,
                   IF Specialized("log_statistics", T, NoArg)
                     THEN log_statistics_specialized(e)
                     ELSE log_statistics(e))
    /\ UNCHANGED <<specializations, command, cmd, granted, out, probe, probed>>

\* The first answer is kept and the latest one is put beside it.
Observe(seen, answer) ==
  IF seen = <<>> THEN <<answer>> ELSE <<seen[1], answer>>

\* A query answers; a true answer opens the paired action for this command.
Answer(hook, a, b, eff) ==
  /\ command = ActionOf(hook)
  /\ cmd' = eff.cmd
  /\ granted' = IF eff.result.value = Bool(TRUE)
                  THEN granted \cup {<<ActionOf(hook), a, b>>}
                  ELSE granted
  /\ ret' = Call(hook, a, b, NoArg, FALSE, eff.result)
  /\ probed' = IF probe = <<hook, a, b>>
                 THEN Observe(probed, eff.result.value)
                 ELSE probed
  /\ UNCHANGED <<specializations, command, out, probe>>

CallCanRead ==
  \E T \in StoreTypes, tag \in Tags :
    Answer("can_read", T, tag,
           IF Specialized("can_read", T, tag) THEN can_specialized(cmd) ELSE can_read(cmd))

CallCanWrite ==
  \E T \in StoreTypes, tag \in Tags :
    Answer("can_write", T, tag,
           IF Specialized("can_write", T, tag) THEN can_specialized(cmd) ELSE can_write(cmd))

CallCanConvert ==
  \E S \in StoreTypes, D \in StoreTypes :
    Answer("can_convert", S, D,
           [cmd |-> cmd,
            result |-> IF Specialized("can_convert", S, D)
                         THEN can_convert_specialized
                         ELSE can_convert])

\* The shell calls an action, after the paired query granted it (gated) or,
\* against the protocol, without.
CallRead ==
  \E T \in StoreTypes, tag \in Tags, filename \in Filenames :
    /\ command = "read"
    /\ ret' = Call("read", T, tag, filename, Granted("read", T, tag),
                   IF Specialized("read", T, tag)
                     THEN read_specialized(T, filename, cmd)
                     ELSE read(filename, cmd))
    /\ UNCHANGED <<specializations, command, cmd, granted, out, probe, probed>>

CallWrite ==
  \E T \in StoreTypes, tag \in Tags, e \in Elements, filename \in Filenames :
    /\ command = "write"
    /\ ret' = Call("write", T, tag, filename, Granted("write", T, tag),
                   IF Specialized("write", T, tag)
                     THEN write_specialized(e, filename, cmd)
                     ELSE write(e, filename, cmd))
    /\ UNCHANGED <<specializations, command, cmd, granted, out, probe, probed>>

CallConvert ==
  \E S \in StoreTypes, D \in StoreTypes, e \in Elements :
    /\ command = "convert"
    /\ ret' = Call("convert", S, D, e, Granted("convert", S, D),
                   IF Specialized("convert", S, D)
                     THEN convert_specialized(D, e)
                     ELSE convert(e))
    /\ UNCHANGED <<specializations, command, cmd, granted, out, probe, probed>>

Next ==
  \/ NewCommand
  \/ CallToString
  \/ CallPrint
  \/ CallPrintStatistics
  \/ CallLogStatistics
  \/ CallCanRead
  \/ CallCanWrite
  \/ CallCanConvert
  \/ CallRead
  \/ CallWrite
  \/ CallConvert

Spec == Init /\ [][Next]_vars

SpecProbed == InitProbed /\ [][Next]_vars

\* ================================================================== claims

\* The failure the default actions end in.
Unimplemented == runtime_error("[e] unimplemented function")

\* The key of the last call has no explicit specialization of `hook`.
Unmodified(hook) == <<hook, ret.a, ret.b>> \notin specializations

Overridden(hook) == <<hook, ret.a, ret.b>> \in specializations

\* C1: for a (store type, tag) pair with no specialization, can_read and
\* can_write return false whatever the command context holds, and a call of
\* read or write ends in the unimplemented failure without returning a value.
C1_DefaultFormatIO ==
  /\ (ret.hook \in FormatQueries /\ Unmodified(ret.hook) /\ Unmodified(ActionOf(ret.hook)))
       => ret.result = Returned(Bool(FALSE))
  /\ (ret.hook \in FormatActions /\ Unmodified(ret.hook) /\ Unmodified(QueryOf(ret.hook)))
       => /\ ret.result.outcome = "thrown"
          /\ ret.result.error = Unimplemented
          /\ ret.result.value = NoValue

\* C1 witness: read was called for an unmodified pair while the command
\* context already held an option, and it ended in the failure.
C1_Witness ==
  /\ ret.hook = "read"
  /\ Unmodified("read") /\ Unmodified("can_read")
  /\ ret.cmd0 # {}
  /\ ret.arg = "a.dot"
  /\ ret.result.outcome = "thrown"

\* C2: for a (source, destination) pair with no specialization, can_convert
\* returns false, and a call of convert ends in the unimplemented failure
\* without returning a destination value.
C2_DefaultConversion ==
  /\ (ret.hook = "can_convert" /\ Unmodified("can_convert") /\ Unmodified("convert"))
       => ret.result = Returned(Bool(FALSE))
  /\ (ret.hook = "convert" /\ Unmodified("convert") /\ Unmodified("can_convert"))
       => /\ ret.result.outcome = "thrown"
          /\ ret.result.error = Unimplemented
          /\ ret.result.value = NoValue

\* C2 witness: can_convert answered false for an unmodified pair of two
\* different store types in a build that converts the reverse pair.
C2_Witness ==
  /\ ret.hook = "can_convert"
  /\ ret.a # ret.b
  /\ Unmodified("can_convert") /\ Unmodified("convert")
  /\ <<"can_convert", ret.b, ret.a>> \in specializations
  /\ ret.result.value = Bool(FALSE)

\* Every query overridden to true has its action overridden too.
Coupled ==
  \A item \in specializations :
    item[1] \in Queries => <<ActionOf(item[1]), item[2], item[3]>> \in specializations

\* C3: in a build where every overridden query has its action overridden, an
\* action called after its query returned true in the same command runs the
\* specialization and never ends in the unimplemented failure.
C3_GatedNeverUnimplemented ==
  (Coupled /\ ret.hook \in Actions /\ ret.gated)
    => /\ Overridden(ret.hook)
       /\ ret.result.error # Unimplemented

\* C3 witness: a gated read returned a store element in a coupled build.
C3_Witness ==
  /\ Coupled
  /\ ret.hook = "read"
  /\ ret.gated
  /\ ret.result.outcome = "returned"

\* Inputs the specialized action accepts: a file that can be opened.
ValidInputs == ret.hook \in FormatActions => Readable(ret.arg)

\* The value has the result type the action declares.
DeclaredResult(hook, value) ==
  CASE hook = "read" -> value[1] = "element" /\ value[2] = ret.a
    [] hook = "write" -> value = Void
    [] hook = "convert" -> value[1] = "element" /\ value[2] = ret.b

\* C4 as stated: once the query of a pair is overridden to true, the paired
\* action called with valid inputs returns a value of its declared type.
C4_QueryImpliesAction ==
  (ret.hook \in Actions /\ Overridden(QueryOf(ret.hook)) /\ ValidInputs)
    => /\ ret.result.outcome = "returned"
       /\ DeclaredResult(ret.hook, ret.result.value)

\* C4 amended: once the query of a pair is overridden to true and the paired
\* action is overridden for the same pair, the action called with valid
\* inputs runs that specialization and returns a value of its declared type.
C4_CoupledActionReturns ==
  (ret.hook \in Actions /\ Overridden(QueryOf(ret.hook)) /\ Overridden(ret.hook)
     /\ ValidInputs)
    => /\ ret.result.outcome = "returned"
       /\ DeclaredResult(ret.hook, ret.result.value)

\* C4 witness: convert<T1, graph> returned a graph after can_convert<T1, graph>
\* granted it.
C4_Witness ==
  /\ ret.hook = "convert" /\ ret.a = "T1" /\ ret.b = "graph"
  /\ Overridden("can_convert") /\ Overridden("convert")
  /\ ret.gated
  /\ ret.result = Returned(Element("graph", ret.arg))

\* None of the four presentation hooks is overridden for the store type.
NoPresentationOverride(T) ==
  \A hook \in PresentationHooks : <<hook, T, NoArg>> \notin specializations

\* C5: for a store type with no overrides the presentation hooks never fail:
\* to_string returns the empty string, print and print_statistics append one
\* line terminator to the sink and nothing else, and log_statistics returns
\* the empty record, for every element and whatever was printed before.
C5_PresentationDefaults ==
  (ret.hook \in PresentationHooks /\ NoPresentationOverride(ret.a))
    => /\ ret.result.outcome = "returned"
       /\ ret.hook = "to_string" => ret.result.value = Str("")
       /\ ret.hook \in {"print", "print_statistics"}
            => out = ret.out0 \o <<Endl>> /\ ret.result.value = Void
       /\ ret.hook \in {"to_string", "log_statistics"} => out = ret.out0
       /\ ret.hook = "log_statistics" => ret.result.value = JsonObject({})
       /\ cmd = ret.cmd0 /\ granted = {}

\* C5 witness: the default print ran for the element with count 5 on a sink
\* that an earlier default print had already written to.
C5_Witness ==
  /\ ret.hook = "print"
  /\ NoPresentationOverride(ret.a)
  /\ ret.arg = 5
  /\ Len(ret.out0) = 1 /\ ret.out0[1] = Endl
  /\ out = <<Endl, Endl>>

\* The five fields of a descriptor are pairwise different.
FieldsDistinct(d) ==
  \A f, g \in DescriptorFields : f # g => d[f] # d[g]

Relatives(hook, a, b) ==
  IF hook = "can_convert"
    THEN {<<hook, b, a>>, <<hook, a, a>>, <<hook, b, b>>} \ {<<hook, a, b>>}
    ELSE {<<hook, a, tag>> : tag \in Tags \ {b}}
           \cup {<<other, a, b>> : other \in FormatQueries \ {hook}}

C9_QueriesIdempotent ==
  /\ Len(probed) = 2 => probed[1] = probed[2]
  /\ (ret.hook \in FormatQueries /\ Unmodified(ret.hook)) => cmd = ret.cmd0

\* C9 witness: the probed key, not overridden, was asked a second time after
\* another key's query had registered an option.
C9_Witness ==
  /\ Len(probed) = 2
  /\ probe = <<ret.hook, ret.a, ret.b>>
  /\ probe \notin specializations
  /\ ret.cmd0 # {}

\* C10: the default read, write and convert all fail with the same generic
\* kind of error and the same message, for every key.
C10_OneGenericFailure ==
  (ret.hook \in Actions /\ Unmodified(ret.hook))
    => /\ ret.result.error.kind = "std::runtime_error"
       /\ ret.result.error.what = "[e] unimplemented function"

\* C10 witness: the default write failed with the generic error.
C10_Witness ==
  /\ ret.hook = "write"
  /\ Unmodified("write")
  /\ ret.result.error = runtime_error("[e] unimplemented function")

====
